---- MODULE Spec2Model ----
(***************************************************************************)
(* MP5922 PMBus monitor (efuse_code.py): the register protocol that main   *)
(* and its helpers drive over the USB-ISS I2C transport, and the pure      *)
(* fault decoder.                                                          *)
(*                                                                         *)
(* Spec       one invocation of main (actor "A") against the device.       *)
(* SpecConc   two invocations ("A" runs status, "B" on or clear) sharing   *)
(*            the device, interleaved at bus-operation granularity.        *)
(* SpecDecode decode_faults applied to bounded status words.               *)
(***************************************************************************)
EXTENDS Integers, Sequences, FiniteSets, TLC

VARIABLES
    pc,       \* per actor: position in main
    cmd,      \* per actor: sys.argv[1], or "none" when len(sys.argv) < 2
    arg,      \* per actor: sys.argv[2] as [kind, val]
    queue,    \* per actor: pages the running loop has still to visit
    raw,      \* per actor: words read so far for the rail being visited
    pin_raw,  \* per actor: word read from READ_PIN, -1 before the read
    out,      \* per actor: what has been printed so far
    log,      \* per actor: its transport call log, in call order
    busLast,  \* the actor whose register operation was the last on the bus
    faulty,   \* transport: calls may raise or return short in this run
    devPage,  \* device: currently selected page
    devOn,    \* device: OPERATION state of each rail
    latched,  \* device: latched fault bits present
    statusWord, statusIout, statusInput, statusTemp,  \* decode_faults: its inputs
    faults,   \* decode_faults: its result
    decoded,  \* decode_faults: has been applied
    word_in,  \* write_word / write_byte: the value to write
    word_bytes,  \* write_word: the bytes it hands to i2c.write
    byte_bytes,  \* write_byte: the bytes it hands to i2c.write
    readback, \* read_word applied to word_bytes
    written,  \* write_word, write_byte and read_word have been applied
    pin_in,   \* show_status: the word READ_PIN returns
    rail_in,  \* show_status: per page, the eight words its registers return
    report,   \* show_status: the quantities it computes and prints
    reported  \* show_status: has computed its report

vars == <<pc, cmd, arg, queue, raw, pin_raw, out, log, busLast, faulty,
          devPage, devOn, latched,
          statusWord, statusIout, statusInput, statusTemp, faults, decoded,
          word_in, word_bytes, byte_bytes, readback, written,
          pin_in, rail_in, report, reported>>

actorVars == <<pc, cmd, arg, queue, raw, pin_raw, out>>
devVars == <<busLast, faulty, devPage, devOn, latched>>
wordVars == <<word_in, word_bytes, byte_bytes, readback, written>>
reportVars == <<pin_in, rail_in, report, reported>>
decodeVars == <<statusWord, statusIout, statusInput, statusTemp, faults, decoded,
                wordVars, reportVars>>

----------------------------------------------------------------------------
(* Bounds of the model *)

\* sys.argv[2] ranges over the integers -1 .. MaxArg, a missing and a
\* non-numeric argument
MaxArg == 3

\* STATUS_IOUT, STATUS_INPUT and STATUS_TEMP range over 0 .. StatusMax
StatusMax == 4

\* STATUS_WORD ranges over every value of its bits 15..12 and 7..6, with bits
\* 11..8 in 0 .. SwMidMax and bits 5..0 in 0 .. SwLowMax
SwMidMax == 1
SwLowMax == 1

\* READ_PIN, READ_VOUT and READ_POUT range over 0 .. RawMax and 0xFFFF
RawMax == 1

----------------------------------------------------------------------------
(* Configuration and register map *)

MP5922_ADDR == 112

PAGES == <<0, 1, 2>>

Pages == {PAGES[i] : i \in 1..Len(PAGES)}

REG_PAGE == 0
REG_OPERATION == 1
REG_CLEAR_FAULTS == 3
REG_PASSWORD == 225
PASSWORD == 33474
OPERATION_ON == 128
OPERATION_OFF == 0
REG_READ_PIN == 151
REG_READ_VIN == 136
REG_READ_VOUT == 139
REG_READ_IOUT == 140
REG_READ_POUT == 150
REG_STATUS_WORD == 121
REG_STATUS_IOUT == 123
REG_STATUS_INPUT == 124
REG_STATUS_TEMP == 125

PAGE_SETTLE_MS == 10
UNLOCK_SETTLE_MS == 20
CLEAR_SETTLE_MS == 10

\* show_status reading VOUT before VIN
RailRegs_swapped ==
    <<REG_READ_VOUT, REG_READ_VIN, REG_READ_IOUT, REG_READ_POUT,
      REG_STATUS_WORD, REG_STATUS_IOUT, REG_STATUS_INPUT, REG_STATUS_TEMP>>

\* the registers show_status reads for one rail, in the order it reads them
RailRegs == <<REG_READ_VIN, REG_READ_VOUT, REG_READ_IOUT, REG_READ_POUT,
              REG_STATUS_WORD, REG_STATUS_IOUT, REG_STATUS_INPUT, REG_STATUS_TEMP>>

PageScoped == {REG_OPERATION} \cup {RailRegs[i] : i \in 1..Len(RailRegs)}

Actors == {"A", "B"}

Commands == {"none", "status", "on", "off", "on_all", "off_all", "clear", "bogus"}

Args == {[kind |-> "missing", val |-> 0], [kind |-> "text", val |-> 0]}
          \cup {[kind |-> "int", val |-> n] : n \in -1..MaxArg}

NoArg == [kind |-> "missing", val |-> 0]

----------------------------------------------------------------------------
(* Transport *)

\* what i2c.read can hand back: the 2 bytes asked for or, on a faulty
\* transport, an exception, 0 bytes or 1 byte
ReadReplies ==
    {[ok |-> TRUE, d |-> <<194, 130>>]}
      \cup (IF faulty THEN {[ok |-> FALSE, d |-> <<>>],
                            [ok |-> TRUE, d |-> <<>>],
                            [ok |-> TRUE, d |-> <<194>>]}
                      ELSE {})

\* whether a write or an open returns (TRUE) or raises (FALSE)
Outcomes == IF faulty THEN BOOLEAN ELSE {TRUE}

IsRegOp(op) == op \in {"write", "read"}

\* one entry of the call log.  For a register operation, page is the device's
\* page when the call is made, prev the actor of the register operation before
\* it on the bus, and want the page argument the caller holds for a paged
\* access (else -1)
Ev(a, op, reg, data, ms, ok) ==
    [a |-> a, op |-> op, reg |-> reg, data |-> data, ms |-> ms,
     page |-> IF IsRegOp(op) THEN devPage ELSE -1,
     prev |-> IF IsRegOp(op) THEN busLast ELSE "none",
     want |-> IF IsRegOp(op) /\ reg \in PageScoped \cup {REG_PAGE}
                THEN Head(queue[a]) ELSE -1,
     ok |-> ok]

IsBusOp(e) == IsRegOp(e.op)

Sleep(a, ms) == Ev(a, "sleep", -1, <<>>, ms, TRUE)

\* the device after a register write that reached it
IsWrite(e, reg) == e.op = "write" /\ e.ok /\ e.reg = reg

PageAfter(e) == IF IsWrite(e, REG_PAGE) THEN e.data[1] ELSE devPage

OnAfter(e) ==
    IF IsWrite(e, REG_OPERATION) /\ devPage \in Pages
      THEN [devOn EXCEPT ![devPage] = (e.data[1] \div 128) % 2 = 1]
      ELSE devOn

LatchedAfter(e) == IF IsWrite(e, REG_CLEAR_FAULTS) THEN FALSE ELSE latched

\* a helper's calls reach the log and, the first of them, the device
Bus(evs) ==
    /\ log' = [log EXCEPT ![evs[1].a] = @ \o evs]
    /\ busLast' = IF IsBusOp(evs[1]) THEN evs[1].a ELSE busLast
    /\ devPage' = PageAfter(evs[1])
    /\ devOn' = OnAfter(evs[1])
    /\ latched' = LatchedAfter(evs[1])
    /\ UNCHANGED faulty

----------------------------------------------------------------------------
(* Low-level helpers *)

\* read_word filling the bytes the transport did not return with zero
read_word_zero_filled(d) ==
    (IF Len(d) >= 1 THEN d[1] ELSE 0) + (IF Len(d) >= 2 THEN d[2] * 256 ELSE 0)

\* d[0] | (d[1] << 8); -1 stands for the IndexError of d[0] or d[1] on a
\* reply of fewer than 2 bytes
read_word(d) == IF Len(d) < 2 THEN -1 ELSE d[1] + d[2] * 256

\* write_word splitting the value high byte first
write_word_big_endian(a, reg, value, ok) ==
    <<Ev(a, "write", reg, <<(value \div 256) % 256, value % 256>>, 0, ok)>>

write_word(a, reg, value, ok) ==
    <<Ev(a, "write", reg, <<value % 256, (value \div 256) % 256>>, 0, ok)>>

write_byte(a, reg, value, ok) ==
    <<Ev(a, "write", reg, <<value % 256>>, 0, ok)>>

\* select_page writing the page to the OPERATION register
select_page_wrong_register(a, page, ok) ==
    <<Ev(a, "write", REG_OPERATION, <<page % 256>>, 0, ok)>>
        \o (IF ok THEN <<Sleep(a, PAGE_SETTLE_MS)>> ELSE <<>>)

\* select_page returning without its time.sleep
select_page_no_settle(a, page, ok) ==
    <<Ev(a, "write", REG_PAGE, <<page % 256>>, 0, ok)>>

\* select_page counting the pages from 1
select_page_next_page(a, page, ok) ==
    <<Ev(a, "write", REG_PAGE, <<(page + 1) % 256>>, 0, ok)>>
        \o (IF ok THEN <<Sleep(a, PAGE_SETTLE_MS)>> ELSE <<>>)

select_page(a, page, ok) ==
    <<Ev(a, "write", REG_PAGE, <<page % 256>>, 0, ok)>>
        \o (IF ok THEN <<Sleep(a, PAGE_SETTLE_MS)>> ELSE <<>>)

----------------------------------------------------------------------------
(* PMBus core actions *)

unlock_mp5922(a, ok) ==
    write_word(a, REG_PASSWORD, PASSWORD, ok)
        \o (IF ok THEN <<Sleep(a, UNLOCK_SETTLE_MS)>> ELSE <<>>)

clear_faults(a, ok) ==
    <<Ev(a, "write", REG_CLEAR_FAULTS, <<>>, 0, ok)>>
        \o (IF ok THEN <<Sleep(a, CLEAR_SETTLE_MS)>> ELSE <<>>)

\* rail_enable writing the control byte of rail_disable
rail_enable_writes_off(a, ok) == write_byte(a, REG_OPERATION, OPERATION_OFF, ok)

\* rail_enable and rail_disable after their select_page: the OPERATION write
rail_enable(a, ok) == write_byte(a, REG_OPERATION, OPERATION_ON, ok)

rail_disable(a, ok) == write_byte(a, REG_OPERATION, OPERATION_OFF, ok)

----------------------------------------------------------------------------
(* Printed output *)

Sec(name, page) == [sec |-> name, page |-> page]

Printed(a, name) == \E i \in 1..Len(out[a]) : out[a][i].sec = name

----------------------------------------------------------------------------
(* Steps of main, one per transport call *)

Crash(a) == pc' = [pc EXCEPT ![a] = "crashed"]

\* iss = UsbIss(); iss.open(PORT); iss.setup_i2c(I2C_SPEED_KHZ)
Open(a) ==
    /\ pc[a] = "start"
    /\ \E ok \in Outcomes :
          /\ Bus(<<Ev(a, "open", -1, <<>>, 0, ok)>>)
          /\ pc' = [pc EXCEPT ![a] = IF ok THEN "unlock" ELSE "crashed"]
    /\ UNCHANGED <<cmd, arg, queue, raw, pin_raw, out, decodeVars>>

\* unlock_mp5922(i2c)
Unlock(a) ==
    /\ pc[a] = "unlock"
    /\ \E ok \in Outcomes :
          /\ Bus(unlock_mp5922(a, ok))
          /\ pc' = [pc EXCEPT ![a] = IF ok THEN "dispatch" ELSE "crashed"]
    /\ UNCHANGED <<cmd, arg, queue, raw, pin_raw, out, decodeVars>>

\* the branch of main on len(sys.argv) and cmd, up to its first transport call
Dispatch(a) ==
    /\ pc[a] = "dispatch"
    /\ CASE cmd[a] = "none" ->
              /\ out' = [out EXCEPT ![a] = Append(@, Sec("usage", -1))]
              /\ pc' = [pc EXCEPT ![a] = "close"]
              /\ UNCHANGED queue
         [] cmd[a] = "status" ->
              /\ out' = [out EXCEPT ![a] = Append(@, Sec("banner", -1))]
              /\ pc' = [pc EXCEPT ![a] = "read_pin"]
              /\ queue' = [queue EXCEPT ![a] = PAGES]
         [] cmd[a] \in {"on", "off"} ->
              /\ IF arg[a].kind = "int"
                    THEN /\ queue' = [queue EXCEPT ![a] = <<arg[a].val>>]
                         /\ pc' = [pc EXCEPT ![a] = "select"]
                    ELSE /\ Crash(a)
                         /\ UNCHANGED queue
              /\ UNCHANGED out
         [] cmd[a] \in {"on_all", "off_all"} ->
              /\ queue' = [queue EXCEPT ![a] = PAGES]
              /\ pc' = [pc EXCEPT ![a] = "select"]
              /\ UNCHANGED out
         [] cmd[a] = "clear" ->
              /\ pc' = [pc EXCEPT ![a] = "clear"]
              /\ UNCHANGED <<queue, out>>
         [] OTHER ->
              /\ out' = [out EXCEPT ![a] = Append(@, Sec("unknown", -1))]
              /\ pc' = [pc EXCEPT ![a] = "close"]
              /\ UNCHANGED queue
    /\ UNCHANGED <<cmd, arg, raw, pin_raw, log, devVars, decodeVars>>

\* show_status: pin_raw = read_word(i2c, MP5922_ADDR, 0x97) and the INPUT lines
ReadPin(a) ==
    /\ pc[a] = "read_pin"
    /\ \E r \in ReadReplies :
          /\ Bus(<<Ev(a, "read", REG_READ_PIN, r.d, 0, r.ok)>>)
          /\ IF r.ok /\ read_word(r.d) >= 0
                THEN /\ pin_raw' = [pin_raw EXCEPT ![a] = read_word(r.d)]
                     /\ out' = [out EXCEPT ![a] = Append(@, Sec("global", -1))]
                     /\ pc' = [pc EXCEPT ![a] = "select"]
                ELSE /\ Crash(a)
                     /\ UNCHANGED <<pin_raw, out>>
    /\ UNCHANGED <<cmd, arg, queue, raw, decodeVars>>

\* select_page(i2c, page) of show_status, rail_enable and rail_disable
SelectPage(a) ==
    /\ pc[a] = "select"
    /\ \E ok \in Outcomes :
          /\ Bus(select_page(a, Head(queue[a]), ok))
          /\ pc' = [pc EXCEPT ![a] = IF ~ok THEN "crashed"
                                      ELSE IF cmd[a] = "status" THEN "read"
                                      ELSE "operate"]
    /\ UNCHANGED <<cmd, arg, queue, raw, pin_raw, out, decodeVars>>

\* show_status: the next of the eight read_word calls of the rail; after the
\* last one the rail's lines are printed, and after the last rail the summary
ReadRail(a) ==
    /\ pc[a] = "read"
    /\ \E r \in ReadReplies :
          /\ Bus(<<Ev(a, "read", RailRegs[Len(raw[a]) + 1], r.d, 0, r.ok)>>)
          /\ IF r.ok /\ read_word(r.d) >= 0
                THEN IF Len(raw[a]) + 1 < Len(RailRegs)
                       THEN /\ raw' = [raw EXCEPT ![a] = Append(@, read_word(r.d))]
                            /\ UNCHANGED <<pc, queue, out>>
                       ELSE /\ raw' = [raw EXCEPT ![a] = <<>>]
                            /\ queue' = [queue EXCEPT ![a] = Tail(@)]
                            /\ out' = [out EXCEPT ![a] =
                                  Append(@, Sec("rail", Head(queue[a])))
                                    \o (IF Tail(queue[a]) = <<>>
                                          THEN <<Sec("summary", -1)>> ELSE <<>>)]
                            /\ pc' = [pc EXCEPT ![a] =
                                  IF Tail(queue[a]) = <<>> THEN "close" ELSE "select"]
                ELSE /\ Crash(a)
                     /\ UNCHANGED <<queue, raw, out>>
    /\ UNCHANGED <<cmd, arg, pin_raw, decodeVars>>

\* the loop of on_all / off_all catching the exception of a rail and going on
\* with the next one
Operate_keeps_going(a) ==
    /\ pc[a] = "operate"
    /\ \E ok \in Outcomes :
          /\ Bus(IF cmd[a] \in {"on", "on_all"}
                    THEN rail_enable(a, ok) ELSE rail_disable(a, ok))
          /\ queue' = [queue EXCEPT ![a] = Tail(@)]
          /\ pc' = [pc EXCEPT ![a] =
                IF Tail(queue[a]) = <<>> THEN "close" ELSE "select"]
    /\ UNCHANGED <<cmd, arg, raw, pin_raw, out, decodeVars>>

\* write_byte(i2c, MP5922_ADDR, 0x01, ...) of rail_enable / rail_disable
Operate(a) ==
    /\ pc[a] = "operate"
    /\ \E ok \in Outcomes :
          /\ Bus(IF cmd[a] \in {"on", "on_all"}
                    THEN rail_enable(a, ok) ELSE rail_disable(a, ok))
          /\ IF ok
                THEN /\ queue' = [queue EXCEPT ![a] = Tail(@)]
                     /\ pc' = [pc EXCEPT ![a] =
                           IF Tail(queue[a]) = <<>> THEN "close" ELSE "select"]
                ELSE /\ Crash(a)
                     /\ UNCHANGED queue
    /\ UNCHANGED <<cmd, arg, raw, pin_raw, out, decodeVars>>

\* clear_faults(i2c); print("[OK] Faults cleared")
ClearFaults(a) ==
    /\ pc[a] = "clear"
    /\ \E ok \in Outcomes :
          /\ Bus(clear_faults(a, ok))
          /\ IF ok
                THEN /\ out' = [out EXCEPT ![a] = Append(@, Sec("cleared", -1))]
                     /\ pc' = [pc EXCEPT ![a] = "close"]
                ELSE /\ Crash(a)
                     /\ UNCHANGED out
    /\ UNCHANGED <<cmd, arg, queue, raw, pin_raw, decodeVars>>

\* iss.close()
Close(a) ==
    /\ pc[a] = "close"
    /\ Bus(<<Ev(a, "close", -1, <<>>, 0, TRUE)>>)
    /\ pc' = [pc EXCEPT ![a] = "done"]
    /\ UNCHANGED <<cmd, arg, queue, raw, pin_raw, out, decodeVars>>

Step(a) ==
    \/ Open(a)
    \/ Unlock(a)
    \/ Dispatch(a)
    \/ ReadPin(a)
    \/ SelectPage(a)
    \/ ReadRail(a)
    \/ Operate(a)
    \/ ClearFaults(a)
    \/ Close(a)

----------------------------------------------------------------------------
(* One invocation of main *)

WordIdle ==
    /\ word_in = 0 /\ word_bytes = <<>> /\ byte_bytes = <<>>
    /\ readback = -1 /\ written = FALSE

ReportIdle ==
    /\ pin_in = 0 /\ rail_in = <<>> /\ report = <<>> /\ reported = FALSE

DecodeIdle ==
    /\ statusWord = 0 /\ statusIout = 0 /\ statusInput = 0 /\ statusTemp = 0
    /\ faults = <<>> /\ decoded = FALSE
    /\ WordIdle
    /\ ReportIdle

InitDevice ==
    /\ devPage \in Pages
    /\ devOn \in [Pages -> BOOLEAN]
    /\ latched \in BOOLEAN

InitLocals ==
    /\ queue = [a \in Actors |-> <<>>]
    /\ raw = [a \in Actors |-> <<>>]
    /\ pin_raw = [a \in Actors |-> -1]
    /\ out = [a \in Actors |-> <<>>]
    /\ log = [a \in Actors |-> <<>>]
    /\ busLast = "none"

Init ==
    /\ pc = [a \in Actors |-> IF a = "A" THEN "start" ELSE "idle"]
    /\ \E c \in Commands, x \in Args :
          /\ cmd = [a \in Actors |-> IF a = "A" THEN c ELSE "none"]
          /\ arg = [a \in Actors |-> IF a = "A" THEN x ELSE NoArg]
    /\ InitLocals
    /\ faulty = TRUE
    /\ InitDevice
    /\ DecodeIdle

Next == Step("A")

Spec == Init /\ [][Next]_vars

----------------------------------------------------------------------------
(* Two invocations of main against the same device over a reliable          *)
(* transport: A runs status while B runs on <page> or clear.  Nothing in    *)
(* main or its helpers takes a lock, so the two interleave at every         *)
(* transport call.                                                          *)

InitConc ==
    /\ pc = [a \in Actors |-> "start"]
    /\ \E x \in {NoArg} \cup {[kind |-> "int", val |-> p] : p \in Pages} :
          /\ cmd = [a \in Actors |-> IF a = "A" THEN "status"
                                     ELSE IF x = NoArg THEN "clear" ELSE "on"]
          /\ arg = [a \in Actors |-> IF a = "A" THEN NoArg ELSE x]
    /\ InitLocals
    /\ faulty = FALSE
    /\ devPage = PAGES[1]
    /\ devOn = [p \in Pages |-> FALSE]
    /\ latched = TRUE
    /\ DecodeIdle

NextConc == \E a \in Actors : Step(a)

SpecConc == InitConc /\ [][NextConc]_vars

----------------------------------------------------------------------------
(* Fault decoder *)

Bit(x, n) == (x \div 2^n) % 2 = 1

If(c, name) == IF c THEN <<name>> ELSE <<>>

\* decode_faults testing STATUS_INPUT before STATUS_IOUT
decode_faults_input_first(sw, si, sin, st) ==
    LET fs == If(Bit(sw, 15), "VOUT_OV")
           \o If(Bit(sw, 14), "IOUT_OC")
           \o If(Bit(sw, 13), "VIN_UV")
           \o If(Bit(sw, 12), "TEMP_FAULT")
           \o If(Bit(sw, 7), "DEVICE_FAULT")
           \o If(Bit(sw, 6), "POWER_GOOD=NO")
           \o If(Bit(sin, 0), "VIN_UV_FAULT")
           \o If(Bit(sin, 1), "VIN_OV_FAULT")
           \o If(Bit(si, 0), "IOUT_OC_WARNING")
           \o If(Bit(si, 1), "IOUT_OC_FAULT")
           \o If(Bit(st, 0), "TEMP_WARNING")
           \o If(Bit(st, 1), "TEMP_FAULT")
    IN  IF fs = <<>> THEN <<"NO_FAULTS">> ELSE fs

\* decode_faults returning the list as built, without the NO_FAULTS default
decode_faults_no_sentinel(sw, si, sin, st) ==
    If(Bit(sw, 15), "VOUT_OV")
        \o If(Bit(sw, 14), "IOUT_OC")
        \o If(Bit(sw, 13), "VIN_UV")
        \o If(Bit(sw, 12), "TEMP_FAULT")
        \o If(Bit(sw, 7), "DEVICE_FAULT")
        \o If(Bit(sw, 6), "POWER_GOOD=NO")
        \o If(Bit(si, 0), "IOUT_OC_WARNING")
        \o If(Bit(si, 1), "IOUT_OC_FAULT")
        \o If(Bit(sin, 0), "VIN_UV_FAULT")
        \o If(Bit(sin, 1), "VIN_OV_FAULT")
        \o If(Bit(st, 0), "TEMP_WARNING")
        \o If(Bit(st, 1), "TEMP_FAULT")

decode_faults(sw, si, sin, st) ==
    LET fs == If(Bit(sw, 15), "VOUT_OV")
           \o If(Bit(sw, 14), "IOUT_OC")
           \o If(Bit(sw, 13), "VIN_UV")
           \o If(Bit(sw, 12), "TEMP_FAULT")
           \o If(Bit(sw, 7), "DEVICE_FAULT")
           \o If(Bit(sw, 6), "POWER_GOOD=NO")
           \o If(Bit(si, 0), "IOUT_OC_WARNING")
           \o If(Bit(si, 1), "IOUT_OC_FAULT")
           \o If(Bit(sin, 0), "VIN_UV_FAULT")
           \o If(Bit(sin, 1), "VIN_OV_FAULT")
           \o If(Bit(st, 0), "TEMP_WARNING")
           \o If(Bit(st, 1), "TEMP_FAULT")
    IN  IF fs = <<>> THEN <<"NO_FAULTS">> ELSE fs

StatusWords ==
    {hi * 4096 + mid * 256 + pg * 64 + lo :
        hi \in 0..15, mid \in 0..SwMidMax, pg \in 0..3, lo \in 0..SwLowMax}

InitDecode ==
    /\ statusWord \in StatusWords
    /\ statusIout \in 0..StatusMax
    /\ statusInput \in 0..StatusMax
    /\ statusTemp \in 0..StatusMax
    /\ faults = <<>>
    /\ decoded = FALSE
    /\ WordIdle
    /\ ReportIdle
    /\ pc = [a \in Actors |-> "idle"]
    /\ cmd = [a \in Actors |-> "none"]
    /\ arg = [a \in Actors |-> NoArg]
    /\ InitLocals
    /\ faulty = FALSE
    /\ devPage = 0
    /\ devOn = [p \in Pages |-> FALSE]
    /\ latched = FALSE

\* faults = decode_faults(sw, si, sin, st)
DecodeFaults ==
    /\ ~decoded
    /\ faults' = decode_faults(statusWord, statusIout, statusInput, statusTemp)
    /\ decoded' = TRUE
    /\ UNCHANGED <<statusWord, statusIout, statusInput, statusTemp,
                   actorVars, log, devVars, wordVars, reportVars>>

NextDecode == DecodeFaults

SpecDecode == InitDecode /\ [][NextDecode]_vars

----------------------------------------------------------------------------
(* Reading the call logs *)

\* the register operations of an actor, in the order it issued them
BusLog(a) == SelectSeq(log[a], IsBusOp)

\* a page-select write that reached the device and carries page p
IsSelectOf(e, p) == e.op = "write" /\ e.reg = 0 /\ e.ok /\ e.data = <<p % 256>>

IsPaged(e) == e.reg \in {1, 136, 139, 140, 150, 121, 123, 124, 125}

HasBit(x, n) == (x \div 2^n) % 2 = 1

----------------------------------------------------------------------------
(* Page addressing *)

\* C1 (as stated): every read or write of a page-scoped register is immediately
\* preceded on the bus by the page-select write carrying its rail's page, with
\* no other register operation between the two.
C1_ImmediatelyPreceded ==
    LET b == BusLog("A") IN
    \A i \in 1..Len(b) :
        IsPaged(b[i]) => i > 1 /\ IsSelectOf(b[i-1], b[i].want)

\* C1 (amended): every access of a page-scoped register is preceded by the
\* page-select write carrying its rail's page, and the only register operations
\* between the two are earlier reads of page-scoped registers for the same rail;
\* the OPERATION write and the READ_VIN read follow the page-select directly.
C1_SelectedBefore ==
    LET b == BusLog("A") IN
    \A i \in 1..Len(b) :
        IsPaged(b[i]) =>
            /\ \E j \in 1..(i-1) :
                  /\ IsSelectOf(b[j], b[i].want)
                  /\ \A k \in (j+1)..(i-1) :
                        /\ b[k].op = "read"
                        /\ IsPaged(b[k])
                        /\ b[k].want = b[i].want
            /\ b[i].reg \in {1, 136} => IsSelectOf(b[i-1], b[i].want)
            /\ b[i].prev = "A"

\* a status query that has read the last status register of the last rail
C1_Witness ==
    LET b == BusLog("A") IN
    \E i \in 1..Len(b) :
        b[i].op = "read" /\ b[i].reg = 125 /\ b[i].want = 2 /\ b[i].ok

\* C2: while A runs status and B runs a command that selects a page, A's
\* read-rail sequence is a critical section: every one of A's eight reads for a
\* rail directly follows A's own previous register operation on the bus and is
\* made while the device's current page is that rail's page.
C2_CriticalSection ==
    \A i \in 1..Len(log["A"]) :
        LET e == log["A"][i] IN
        (e.op = "read" /\ IsPaged(e)) => (e.prev = "A" /\ e.page = e.want)

----------------------------------------------------------------------------
(* Argument checking *)

\* C3: on <index> and off <index> with an index outside the configured pages
\* 0, 1, 2 fail before any register access: the invocation issues no write to
\* 0xE1, 0x00 or 0x01.
C3_FailsFast ==
    (/\ cmd["A"] \in {"on", "off"}
     /\ arg["A"].kind = "int"
     /\ arg["A"].val \notin {0, 1, 2})
        => BusLog("A") = <<>>

----------------------------------------------------------------------------
(* Status query *)

\* the register operations of show_status: all after the unlock write of main
StatusOps(a) == Tail(BusLog(a))

Shape(e) == <<e.op, e.reg, IF e.op = "write" THEN e.data ELSE <<>>>>

RailShape(p) ==
    <<<<"write", 0, <<p>>>>,
      <<"read", 136, <<>>>>, <<"read", 139, <<>>>>, <<"read", 140, <<>>>>,
      <<"read", 150, <<>>>>, <<"read", 121, <<>>>>, <<"read", 123, <<>>>>,
      <<"read", 124, <<>>>>, <<"read", 125, <<>>>>>>

StatusShape == <<<<"read", 151, <<>>>>>> \o RailShape(0) \o RailShape(1) \o RailShape(2)

\* C4: a status query issues one read of 0x97 and then, for the rails 0, 1, 2
\* in that order, one page-select write followed by one read of each of 0x88,
\* 0x8B, 0x8C, 0x96, 0x79, 0x7B, 0x7C, 0x7D in that order, and no other register
\* operation: at every moment its call log is a prefix of that sequence, and it
\* is the whole sequence when the query has completed.
C4_StatusSequence ==
    (cmd["A"] = "status" /\ BusLog("A") # <<>>) =>
        LET ops == StatusOps("A") IN
        /\ Len(ops) <= Len(StatusShape)
        /\ \A i \in 1..Len(ops) : Shape(ops[i]) = StatusShape[i]
        /\ pc["A"] \in {"close", "done"} => Len(ops) = Len(StatusShape)

\* a completed status query
C4_Witness ==
    cmd["A"] = "status" /\ pc["A"] = "done" /\ Len(StatusOps("A")) = 28

\* C8: the status report is all-or-nothing: when a register access of the
\* query fails, no global input line, no rail section and no summary has been
\* printed; a summary is printed only when every access succeeded.
C8_AllOrNothing ==
    cmd["A"] = "status" =>
        /\ pc["A"] = "crashed" =>
              ~(Printed("A", "global") \/ Printed("A", "rail") \/ Printed("A", "summary"))
        /\ Printed("A", "summary") =>
              \A i \in 1..Len(log["A"]) : log["A"][i].ok

----------------------------------------------------------------------------
(* Unlock and settle delays *)

IsUnlock(e) == e.op = "write" /\ e.reg = 225

\* C9: whatever the command, the first register operation of an invocation is
\* the write of the bytes [0xC2, 0x82] to 0xE1; it is issued once the transport
\* is open, exactly once, and before every other register operation.
C9_UnlockFirst ==
    LET b == BusLog("A") IN
    /\ b # <<>> => IsUnlock(b[1]) /\ b[1].data = <<194, 130>>
    /\ \A i \in 2..Len(b) : ~IsUnlock(b[i])
    /\ pc["A"] \in {"dispatch", "read_pin", "select", "read", "operate", "clear",
                     "close", "done"} => b # <<>>
    /\ (pc["A"] = "crashed" /\ log["A"][1].ok) => b # <<>>

\* an invocation without a command that has printed the usage and closed
C9_Witness ==
    /\ cmd["A"] = "none" /\ pc["A"] = "done"
    /\ Len(BusLog("A")) = 1

\* the delay an actor has slept between its log entries i and j
Slept(l, i, j) ==
    LET RECURSIVE sum(_)
        sum(k) == IF k >= j THEN 0
                  ELSE (IF l[k].op = "sleep" THEN l[k].ms ELSE 0) + sum(k + 1)
    IN sum(i + 1)

Settle(e) == IF e.reg = 225 THEN 20 ELSE IF e.reg \in {0, 3} THEN 10 ELSE 0

\* C10: between a page-select or clear-faults write and the next register
\* operation of the same process at least 10 ms are slept, and at least 20 ms
\* after the unlock write, on every path of every command and whatever the
\* arguments.
C10_SettleDelays ==
    LET l == log["A"] IN
    \A i \in 1..Len(l) : \A j \in (i+1)..Len(l) :
        (l[i].op = "write" /\ IsBusOp(l[j])) => Slept(l, i, j) >= Settle(l[i])

\* on_all completed: three page-selects, each followed by an OPERATION write
C10_Witness ==
    /\ cmd["A"] = "on_all" /\ pc["A"] = "done"
    /\ Len(BusLog("A")) = 7

----------------------------------------------------------------------------
(* Fault decoding *)

Twelve ==
    <<"VOUT_OV", "IOUT_OC", "VIN_UV", "TEMP_FAULT", "DEVICE_FAULT", "POWER_GOOD=NO",
      "IOUT_OC_WARNING", "IOUT_OC_FAULT", "VIN_UV_FAULT", "VIN_OV_FAULT",
      "TEMP_WARNING", "TEMP_FAULT">>

\* the twelve mapped bits, in the order of the bit table
MappedBits ==
    <<HasBit(statusWord, 15), HasBit(statusWord, 14), HasBit(statusWord, 13),
      HasBit(statusWord, 12), HasBit(statusWord, 7), HasBit(statusWord, 6),
      HasBit(statusIout, 0), HasBit(statusIout, 1),
      HasBit(statusInput, 0), HasBit(statusInput, 1),
      HasBit(statusTemp, 0), HasBit(statusTemp, 1)>>

MappedSet == {i \in 1..12 : MappedBits[i]}

\* C5: decode_faults returns one name per set mapped bit, in the table order,
\* and no name occurs twice in the result.
C5_OneNamePerBit ==
    (decoded /\ MappedSet # {}) =>
        /\ Len(faults) = Cardinality(MappedSet)
        /\ \A i, j \in 1..Len(faults) : i # j => faults[i] # faults[j]

IsC6Input ==
    statusWord = 49344 /\ statusIout = 3 /\ statusInput = 3 /\ statusTemp = 3

\* C6 (as stated): for statusWord=0xC0C0 and the three other status words 0x03,
\* decode_faults returns all twelve named faults in the table order.
C6_AllTwelve == (decoded /\ IsC6Input) => faults = Twelve

\* C6 (amended): for statusWord=0xC0C0 and the three other status words 0x03,
\* decode_faults returns, in the table order, the ten names of the bits that
\* are set: all rows of the table but statusWord bits 13 and 12.
C6_TenOfTwelve ==
    (decoded /\ IsC6Input) =>
        faults = <<"VOUT_OV", "IOUT_OC", "DEVICE_FAULT", "POWER_GOOD=NO",
                   "IOUT_OC_WARNING", "IOUT_OC_FAULT", "VIN_UV_FAULT",
                   "VIN_OV_FAULT", "TEMP_WARNING", "TEMP_FAULT">>

\* decode_faults applied to the scenario's four status words
C6_Witness == decoded /\ IsC6Input /\ Len(faults) = 10

\* C7: the result of decode_faults is never empty; it is the single sentinel
\* NO_FAULTS exactly when none of the twelve mapped bits is set, whatever the
\* other bits, and the sentinel never stands beside a fault name.
C7_NeverEmpty ==
    decoded =>
        /\ faults # <<>>
        /\ (faults = <<"NO_FAULTS">>) <=> (MappedSet = {})
        /\ (\E i \in 1..Len(faults) : faults[i] = "NO_FAULTS") => Len(faults) = 1

\* only unmapped bits set in all four status words
C7_Witness ==
    /\ decoded /\ faults = <<"NO_FAULTS">>
    /\ statusWord = 257 /\ statusIout = 4 /\ statusInput = 4 /\ statusTemp = 4

----------------------------------------------------------------------------
(* Transport errors *)

\* a read that returned fewer than the 2 bytes of a word
IsShort(e) == e.op = "read" /\ e.ok /\ Len(e.data) < 2

\* the place of a rail register in the order show_status reads them
RailRegIndex(reg) ==
    CHOOSE i \in 1..8 : <<136, 139, 140, 150, 121, 123, 124, 125>>[i] = reg

\* C14: when the transport returns 0 or 1 byte for a word read, read_word
\* raises and yields no value: the read is the last transport call of the
\* invocation, which ends in the error, and no reading is produced from it (no
\* pin_raw and no INPUT line for READ_PIN, no further raw word and no rail
\* section for a rail register).
C14_ShortReadIsFatal ==
    LET l == log["A"] IN
    \A i \in 1..Len(l) :
        IsShort(l[i]) =>
            /\ i = Len(l)
            /\ pc["A"] = "crashed"
            /\ l[i].reg = 151 => (pin_raw["A"] = -1 /\ ~Printed("A", "global"))
            /\ l[i].reg # 151 =>
                  /\ Len(raw["A"]) = RailRegIndex(l[i].reg) - 1
                  /\ \A k \in 1..Len(out["A"]) :
                        ~(out["A"][k].sec = "rail" /\ out["A"][k].page = l[i].want)
                  /\ ~Printed("A", "summary")

\* a one-byte reply to the READ_VOUT read of page 1
C14_Witness ==
    LET l == log["A"] IN
    /\ l # <<>>
    /\ IsShort(l[Len(l)])
    /\ l[Len(l)].reg = 139 /\ l[Len(l)].want = 1 /\ Len(l[Len(l)].data) = 1

\* a transport call that raised
IsFailed(e) == e.op \in {"open", "write", "read"} /\ ~e.ok

\* C15: a transport call that fails is not issued again and is the last
\* transport call of the invocation: the error ends the command and main, no
\* later rail is read or written.
C15_NoRetry ==
    LET l == log["A"] IN
    \A i \in 1..Len(l) :
        IsFailed(l[i]) => (i = Len(l) /\ pc["A"] = "crashed")

\* on_all whose OPERATION write for rail 1 raised, after rail 0 was switched
C15_Witness ==
    LET l == log["A"] IN
    /\ cmd["A"] = "on_all" /\ pc["A"] = "crashed"
    /\ l # <<>>
    /\ IsFailed(l[Len(l)])
    /\ l[Len(l)].reg = 1 /\ l[Len(l)].want = 1

----------------------------------------------------------------------------
(* Rail control and the device *)

IsConfigured(a) == arg[a].kind = "int" /\ arg[a].val \in {0, 1, 2}

Finished(a) == pc[a] \in {"close", "done"}

\* C16: rail_enable(p) / rail_disable(p) for a configured page p issue exactly
\* two writes, the page-select of p and then the byte 0x80 (on) or 0x00 (off)
\* to 0x01, and no read; afterwards rail p is on / off, and no step of the
\* command changes another rail; on_all / off_all leave every rail on / off.
C16_RailSwitch ==
    /\ [](/\ (cmd["A"] \in {"on", "off"} /\ IsConfigured("A") /\ Finished("A")) =>
              /\ Len(StatusOps("A")) = 2
              /\ Shape(StatusOps("A")[1]) = <<"write", 0, <<arg["A"].val>>>>
              /\ Shape(StatusOps("A")[2]) =
                    <<"write", 1, <<IF cmd["A"] = "on" THEN 128 ELSE 0>>>>
              /\ devOn[arg["A"].val] = (cmd["A"] = "on")
          /\ (cmd["A"] \in {"on_all", "off_all"} /\ Finished("A")) =>
              /\ Len(StatusOps("A")) = 6
              /\ \A p \in {0, 1, 2} : devOn[p] = (cmd["A"] = "on_all"))
    /\ [][(cmd["A"] \in {"on", "off"} /\ IsConfigured("A")) =>
             \A q \in {0, 1, 2} : q # arg["A"].val => devOn'[q] = devOn[q]]_vars

\* on 1 completed on a device whose rails were all off and stay so but rail 1
C16_Witness ==
    /\ cmd["A"] = "on" /\ arg["A"].val = 1 /\ pc["A"] = "done"
    /\ devOn = [p \in {0, 1, 2} |-> p = 1]

\* C18: with no other writer of the page register, at every access to a
\* page-scoped register for a configured rail the device's selected page is
\* the page of that rail: the eight reads of a rail and the 0x01 writes all
\* meet the page they are meant for.
C18_PageMatches ==
    LET b == BusLog("A") IN
    \A i \in 1..Len(b) :
        (IsPaged(b[i]) /\ b[i].want \in {0, 1, 2}) => b[i].page = b[i].want

\* off_all has written OPERATION for rail 2 on a device that started on page 0
C18_Witness ==
    LET b == BusLog("A") IN
    /\ cmd["A"] = "off_all"
    /\ Len(b) = 7
    /\ b[1].page = 0
    /\ b[7].reg = 1 /\ b[7].want = 2 /\ b[7].ok

\* C19: the only writes of the status command go to 0xE1 (unlock) and 0x00
\* (page-select), never to 0x01 or 0x03, and no step of the command changes a
\* rail's on/off state or the latched fault bits.
C19_StatusReadsOnly ==
    /\ [](cmd["A"] = "status" =>
             \A i \in 1..Len(log["A"]) :
                 log["A"][i].op = "write" => log["A"][i].reg \in {225, 0})
    /\ [][cmd["A"] = "status" => (devOn' = devOn /\ latched' = latched)]_vars

\* a completed status query on a device with rails on and faults latched
C19_Witness ==
    /\ cmd["A"] = "status" /\ pc["A"] = "done"
    /\ latched /\ devOn[0] /\ devOn[2] /\ ~devOn[1]

----------------------------------------------------------------------------
(* Closing the transport *)

IsClose(e) == e.op = "close"

\* C20: on every command path that meets no transport error the transport is
\* closed exactly once when the invocation has ended, and the close is its last
\* transport call.
C20_ClosedOnce ==
    LET l == log["A"] IN
    (/\ pc["A"] \in {"done", "crashed"}
     /\ \A i \in 1..Len(l) : ~IsFailed(l[i]) /\ ~IsShort(l[i]))
        => /\ l # <<>>
           /\ IsClose(l[Len(l)])
           /\ \A i \in 1..(Len(l) - 1) : ~IsClose(l[i])

----------------------------------------------------------------------------
(* Word and byte framing: write_word, write_byte and read_word applied to   *)
(* every 16-bit value                                                       *)

\* no invocation of main is running
MainIdle ==
    /\ pc = [a \in Actors |-> "idle"]
    /\ cmd = [a \in Actors |-> "none"]
    /\ arg = [a \in Actors |-> NoArg]
    /\ InitLocals
    /\ faulty = FALSE
    /\ devPage = 0
    /\ devOn = [p \in Pages |-> FALSE]
    /\ latched = FALSE

InitWord ==
    /\ word_in \in 0..(2^16 - 1)
    /\ word_bytes = <<>> /\ byte_bytes = <<>>
    /\ readback = -1 /\ written = FALSE
    /\ statusWord = 0 /\ statusIout = 0 /\ statusInput = 0 /\ statusTemp = 0
    /\ faults = <<>> /\ decoded = FALSE
    /\ ReportIdle
    /\ MainIdle

\* write_word and write_byte of the value, and read_word of the bytes that
\* write_word put on the bus
WriteAndReadBack ==
    /\ ~written
    /\ word_bytes' = write_word("A", REG_PASSWORD, word_in, TRUE)[1].data
    /\ byte_bytes' = write_byte("A", REG_PASSWORD, word_in, TRUE)[1].data
    /\ readback' = read_word(word_bytes')
    /\ written' = TRUE
    /\ UNCHANGED <<word_in, statusWord, statusIout, statusInput, statusTemp,
                   faults, decoded, actorVars, log, devVars, reportVars>>

NextWord == WriteAndReadBack

SpecWord == InitWord /\ [][NextWord]_vars

\* C17: write_word emits exactly the 2 bytes [value mod 256, (value div 256)
\* mod 256], read_word returns byte0 + 256 * byte1, so reading back the bytes
\* of write_word(v) yields v for every v in 0..65535; write_byte emits exactly
\* the 1 byte [value mod 256].
C17_RoundTrip ==
    written =>
        /\ Len(word_bytes) = 2
        /\ word_bytes[1] = word_in % 256
        /\ word_bytes[2] = (word_in \div 256) % 256
        /\ readback = word_bytes[1] + 256 * word_bytes[2]
        /\ readback = word_in
        /\ byte_bytes = <<word_in % 256>>

\* the password 0x82C2 written and read back
C17_Witness ==
    written /\ word_in = 33474 /\ word_bytes = <<194, 130>> /\ readback = 33474

----------------------------------------------------------------------------
(* Datasheet conversions and the quantities of show_status.  A float is     *)
(* modelled by the rational it stands for, [n, d] in lowest terms with      *)
(* d > 0; the products and sums of show_status are exact in binary floating *)
(* point, its two divisions are modelled without their rounding.            *)

Abs(x) == IF x < 0 THEN -x ELSE x

RECURSIVE GCD(_, _)
GCD(x, y) == IF y = 0 THEN x ELSE GCD(y, x % y)

\* what a division by zero raises; every operation on it yields it again
ZeroDivisionError == [n |-> 0, d |-> 0]

Q(n, d) ==
    IF d = 0 THEN ZeroDivisionError
    ELSE LET g == GCD(Abs(n), Abs(d))
             sgn == IF d < 0 THEN -1 ELSE 1
         IN  [n |-> sgn * (n \div g), d |-> sgn * (d \div g)]

QAdd(x, y) == Q(x.n * y.d + y.n * x.d, x.d * y.d)

QSub(x, y) == Q(x.n * y.d - y.n * x.d, x.d * y.d)

QMul(x, y) == Q(x.n * y.n, x.d * y.d)

QDiv(x, y) == Q(x.n * y.d, x.d * y.n)

QPos(x) == x.n > 0 /\ x.d > 0

\* raw * 0.015625
raw_to_voltage(r) == QMul(Q(r, 1), Q(1, 64))

\* raw * 0.125
raw_to_power(r) == QMul(Q(r, 1), Q(1, 8))

\* the current computed without looking at the voltage
derive_iout_unguarded(pout, vout) == QDiv(pout, vout)

\* iout = pout / vout if vout > 0 else 0.0
derive_iout(pout, vout) == IF QPos(vout) THEN QDiv(pout, vout) ELSE Q(0, 1)

\* the current taken from the READ_IOUT word instead of POUT / VOUT
rail_report_scaled_iout(w) ==
    [vin |-> raw_to_voltage(w[1]),
     vout |-> raw_to_voltage(w[2]),
     pout |-> raw_to_power(w[4]),
     iout |-> QMul(Q(w[3], 1), Q(1, 64)),
     iout_raw |-> w[3],
     faults |-> decode_faults(w[5], w[6], w[7], w[8])]

\* one pass of the loop of show_status over the eight words
\* <<vin_raw, vout_raw, iout_raw, pout_raw, sw, si, sin, st>> of a rail
rail_report(w) ==
    [vin |-> raw_to_voltage(w[1]),
     vout |-> raw_to_voltage(w[2]),
     pout |-> raw_to_power(w[4]),
     iout |-> derive_iout(raw_to_power(w[4]), raw_to_voltage(w[2])),
     iout_raw |-> w[3],
     faults |-> decode_faults(w[5], w[6], w[7], w[8])]

\* total_pout = 0.0; total_pout += pout for every page in the order of PAGES
RECURSIVE total_of(_)
total_of(pouts) ==
    IF pouts = <<>> THEN Q(0, 1)
    ELSE QAdd(total_of(SubSeq(pouts, 1, Len(pouts) - 1)), pouts[Len(pouts)])

\* the summary dividing by the input power whatever it is, losses never
\* reported below zero
summary_unguarded(pin_w, total_pout) ==
    [total_pout |-> total_pout,
     loss |-> IF QPos(QSub(pin_w, total_pout))
                THEN QSub(pin_w, total_pout) ELSE Q(0, 1),
     eff |-> QMul(QDiv(total_pout, pin_w), Q(100, 1))]

\* loss = pin_w - total_pout
\* eff = (total_pout / pin_w * 100) if pin_w > 0 else 0
summary(pin_w, total_pout) ==
    [total_pout |-> total_pout,
     loss |-> QSub(pin_w, total_pout),
     eff |-> IF QPos(pin_w)
               THEN QMul(QDiv(total_pout, pin_w), Q(100, 1)) ELSE Q(0, 1)]

\* everything show_status computes from the word of READ_PIN and the words of
\* the rails
show_status(pin, rails) ==
    LET rr == [p \in Pages |-> rail_report(rails[p])]
        sm == summary(raw_to_power(pin),
                      total_of([i \in 1..Len(PAGES) |-> rr[PAGES[i]].pout]))
    IN  [pin_w |-> raw_to_power(pin), rails |-> rr,
         total_pout |-> sm.total_pout, loss |-> sm.loss, eff |-> sm.eff]

RawValues == (0..RawMax) \cup {65535}

\* values of READ_IOUT, the same for the three rails
AuxValues == {0, 65535}

\* READ_VIN and the status words <<vin_raw, sw, si, sin, st>>, the same for
\* the three rails
StatusSamples == {<<0, 0, 0, 0, 0>>, <<65535, 49344, 3, 3, 3>>}

InitReport ==
    /\ pin_in \in RawValues
    /\ \E vo \in [Pages -> RawValues], po \in [Pages -> RawValues],
          io \in AuxValues, sts \in StatusSamples :
          rail_in = [p \in Pages |->
                        <<sts[1], vo[p], io, po[p], sts[2], sts[3], sts[4], sts[5]>>]
    /\ report = <<>>
    /\ reported = FALSE
    /\ statusWord = 0 /\ statusIout = 0 /\ statusInput = 0 /\ statusTemp = 0
    /\ faults = <<>> /\ decoded = FALSE
    /\ WordIdle
    /\ MainIdle

\* the conversions and the summary of one status query
ShowStatus ==
    /\ ~reported
    /\ report' = show_status(pin_in, rail_in)
    /\ reported' = TRUE
    /\ UNCHANGED <<pin_in, rail_in, statusWord, statusIout, statusInput, statusTemp,
                   faults, decoded, actorVars, log, devVars, wordVars>>

NextReport == ShowStatus

SpecReport == InitReport /\ [][NextReport]_vars

\* the output powers of the query in eighths of a watt, summed
TotalEighths == rail_in[0][4] + rail_in[1][4] + rail_in[2][4]

\* the rational x is num / den in lowest terms, for den > 0
Equals(x, num, den) ==
    /\ x.d > 0
    /\ x.n = num \div GCD(Abs(num), den)
    /\ x.d = den \div GCD(Abs(num), den)

C12_IoutRawUnused ==
    reported =>
        \A p \in {0, 1, 2}, alt \in {1, 65535} :
          \A other \in {show_status(pin_in, [rail_in EXCEPT ![p][3] = alt])} :
            /\ other.total_pout = report.total_pout
            /\ other.loss = report.loss
            /\ other.eff = report.eff
            /\ other.pin_w = report.pin_w
            /\ other.rails[p].iout_raw = alt
            /\ \A q \in {0, 1, 2} :
                  /\ other.rails[q].iout = report.rails[q].iout
                  /\ other.rails[q].vin = report.rails[q].vin
                  /\ other.rails[q].vout = report.rails[q].vout
                  /\ other.rails[q].pout = report.rails[q].pout
                  /\ other.rails[q].faults = report.rails[q].faults
                  /\ q # p => other.rails[q].iout_raw = report.rails[q].iout_raw

\* a query whose 0x8C words are 0xFFFF and whose rail 0 delivers 8 A
C12_Witness ==
    /\ reported
    /\ rail_in[0][3] = 65535 /\ report.rails[0].iout_raw = 65535
    /\ report.rails[0].iout = [n |-> 8, d |-> 1]

\* C13: for every rail the derived current is exactly 0 when the converted
\* output voltage is <= 0 (raw VOUT = 0), whatever POUT, and no division by the
\* voltage is made; otherwise it is converted POUT divided by converted VOUT,
\* that is 8 * raw POUT / raw VOUT.
C13_DerivedCurrent ==
    reported =>
        \A p \in {0, 1, 2} :
            IF rail_in[p][2] <= 0
              THEN report.rails[p].iout = [n |-> 0, d |-> 1]
              ELSE Equals(report.rails[p].iout, 8 * rail_in[p][4], rail_in[p][2])

\* rail 0 without output voltage but with output power, rail 1 with both
C13_Witness ==
    /\ reported
    /\ rail_in[0][2] = 0 /\ rail_in[0][4] = 65535
    /\ rail_in[1][2] = 65535 /\ rail_in[1][4] = 1
    /\ report.rails[1].iout = [n |-> 8, d |-> 65535]

====
